---- MODULE Spec2Model ----
(***************************************************************************)
(* Model of sardana/pool/poolmetacontroller.py: the descriptor             *)
(* normalisation DataInfo.toDataInfo, the cataloguing of a controller      *)
(* class by ControllerClass.__init__, the projection toDict and the        *)
(* accessors of the catalogued record.                                     *)
(*                                                                         *)
(* Python strings are sequences of one-character strings, so that          *)
(* lower-casing, "get%s" % name and eval act on their characters.          *)
(***************************************************************************)
EXTENDS Integers, Sequences, FiniteSets, TLC

\* ------------------------------------------------------------------ bounds
MaxLen == 3        \* longest textual default value handed to eval
MaxItems == 1      \* most entries of one declared schema mapping
MaxRoles == 2      \* most role names of one declared role list
MaxClasses == 2    \* most classes of one module

\* ------------------------------------------------------------ Python values
\* A Python value: k is its type, n its number, s its characters.
None == [k |-> "none", n |-> 0, s |-> <<>>]
IntV(i) == [k |-> "int", n |-> i, s |-> <<>>]
FloatV(i) == [k |-> "float", n |-> i, s |-> <<>>]
StrV(t) == [k |-> "str", n |-> 0, s |-> t]

\* types.StringTypes
StringTypes == {"str"}

\* bool(v) of a Python value
Truthy(v) ==
    CASE v.k = "none" -> FALSE
      [] v.k = "str" -> v.s # <<>>
      [] v.k \in {"int", "float"} -> v.n # 0
      [] OTHER -> TRUE

\* str.lower(), on the letters the model's keys and names use
LowerChar(c) ==
    CASE c = "A" -> "a"
      [] c = "B" -> "b"
      [] c = "T" -> "t"
      [] c = "Y" -> "y"
      [] c = "P" -> "p"
      [] c = "E" -> "e"
      [] OTHER -> c

lower(t) == [i \in 1..Len(t) |-> LowerChar(t[i])]

\* ------------------------------------------------------------------- eval
Digits == {"1", "5"}
Quote == "'"
Chars == Digits \cup {Quote, "x"}

DigitVal(c) == IF c = "1" THEN 1 ELSE 5

RECURSIVE Decimal(_)
Decimal(t) ==
    IF t = <<>> THEN 0
    ELSE 10 * Decimal(SubSeq(t, 1, Len(t) - 1)) + DigitVal(t[Len(t)])

\* eval(text) of line 159, on texts over Chars: a decimal literal is an int,
\* a quoted text a str, a bare identifier an unbound name, anything else
\* does not parse.
eval(t) ==
    IF t # <<>> /\ \A i \in 1..Len(t) : t[i] \in Digits
    THEN [err |-> "", val |-> IntV(Decimal(t))]
    ELSE IF /\ Len(t) >= 2
            /\ t[1] = Quote
            /\ t[Len(t)] = Quote
            /\ \A i \in 2..(Len(t) - 1) : t[i] # Quote
    THEN [err |-> "", val |-> StrV(SubSeq(t, 2, Len(t) - 1))]
    ELSE IF /\ t # <<>>
            /\ t[1] = "x"
            /\ \A i \in 1..Len(t) : t[i] # Quote
    THEN [err |-> "NameError", val |-> None]
    ELSE [err |-> "SyntaxError", val |-> None]

\* --------------------------------------------------- sardana enumerations
\* DataType, DataFormat, DataAccess of the sardana package
DataType == [Integer |-> 0, Double |-> 1, String |-> 2, Boolean |-> 3]
DataFormat == [Scalar |-> 0, OneD |-> 1, TwoD |-> 2]
DataAccess == [ReadOnly |-> 0, ReadWrite |-> 1]

\* the values of an enumeration, and Enumeration.whatis: the name of a value
Members(enum) == {enum[x] : x \in DOMAIN enum}
whatis(enum, v) == CHOOSE x \in DOMAIN enum : enum[x] = v

T_int == <<"i", "n", "t">>
T_float == <<"f", "l", "o", "a", "t">>
T_str == <<"s", "t", "r">>
T_bogus == <<"b", "o", "g", "u", "s">>
A_read == <<"r", "e", "a", "d">>
A_read_write == <<"r", "e", "a", "d", "_", "w", "r", "i", "t", "e">>

\* DTYPE_MAP: the declared type names and the data type of each
DTYPE_MAP ==
    (T_int :> DataType.Integer) @@ (T_float :> DataType.Double)
    @@ (T_str :> DataType.String)

\* DACCESS_MAP: the declared access names and the access mode of each
DACCESS_MAP ==
    (A_read :> DataAccess.ReadOnly) @@ (A_read_write :> DataAccess.ReadWrite)

\* to_dtype_dformat(dtype): the data type and the shape a declared type
\* resolves to; an unknown declared type is an invalid configuration.
to_dtype_dformat(v) ==
    IF v.k = "str" /\ v.s \in DOMAIN DTYPE_MAP
    THEN [err |-> "", dtype |-> DTYPE_MAP[v.s], dformat |-> DataFormat.Scalar]
    ELSE [err |-> "InvalidConfiguration", dtype |-> -1, dformat |-> -1]

\* to_daccess(daccess): the access mode a declared access resolves to; the
\* enumeration value itself (the default of line 153) resolves to itself.
to_daccess(v) ==
    IF v.k = "int" /\ v.n \in Members(DataAccess)
    THEN [err |-> "", access |-> v.n]
    ELSE IF v.k = "str" /\ v.s \in DOMAIN DACCESS_MAP
    THEN [err |-> "", access |-> DACCESS_MAP[v.s]]
    ELSE [err |-> "InvalidConfiguration", access |-> -1]

\* --------------------------------------------------------------- DataInfo
K_type == <<"t", "y", "p", "e">>
K_Type == <<"T", "y", "p", "e">>
K_rw == <<"r", "/", "w", " ", "t", "y", "p", "e">>
K_defaultvalue == <<"d", "e", "f", "a", "u", "l", "t", "v", "a", "l", "u", "e">>
K_description == <<"d", "e", "s", "c", "r", "i", "p", "t", "i", "o", "n">>
K_fget == <<"f", "g", "e", "t">>
K_fset == <<"f", "s", "e", "t">>

NoDataInfo == [name |-> <<>>, dtype |-> -1, dformat |-> -1, access |-> -1,
               description |-> None, default_value |-> None,
               fget |-> <<>>, fset |-> <<>>]

\* DataInfo.__init__
DataInfo(name, dtype, dformat, access, description, default_value, fget, fset) ==
    [name |-> name, dtype |-> dtype, dformat |-> dformat, access |-> access,
     description |-> description, default_value |-> default_value,
     fget |-> IF Truthy(fget) THEN fget.s ELSE <<"g", "e", "t">> \o name,
     fset |-> IF Truthy(fset) THEN fset.s ELSE <<"s", "e", "t">> \o name]

\* the caseless dicts over the lower-cased keys ks that info can become
RECURSIVE CaselessOver(_, _)
CaselessOver(info, ks) ==
    IF ks = {} THEN {<<>>}
    ELSE LET k == CHOOSE x \in ks : TRUE
         IN {(k :> info[key]) @@ rest :
               key \in {x \in DOMAIN info : lower(x) = k},
               rest \in CaselessOver(info, ks \ {k})}

\* CaselessDict(info): every key lower-cased; of two keys equal ignoring
\* case the one the dict yields last is kept, which the dict's order decides.
CaselessDict(info) == CaselessOver(info, {lower(key) : key \in DOMAIN info})

\* dict.get(key, default) of a CaselessDict
Get(d, key, default) == IF lower(key) \in DOMAIN d THEN d[lower(key)] ELSE default

\* DefaultValueOf with the test of the string type dropped
DefaultValueOf_EvalAlways(default_value, dtype) ==
    IF default_value # None /\ default_value.k \in StringTypes
    THEN eval(default_value.s)
    ELSE [err |-> "", val |-> default_value]

\* DefaultValueOf with the evaluation dropped
DefaultValueOf_NoEval(default_value, dtype) ==
    [err |-> "", val |-> default_value]

\* lines 157-159: the default value kept in the descriptor
DefaultValueOf(default_value, dtype) ==
    IF default_value # None /\ dtype # DataType.String
    THEN IF default_value.k \in StringTypes
         THEN eval(default_value.s)
         ELSE [err |-> "", val |-> default_value]
    ELSE [err |-> "", val |-> default_value]

Raise(kind) == [err |-> kind, val |-> NoDataInfo]

\* Lookup reading the key with info.get('type')
Lookup_Get(d, key) == [err |-> "", val |-> Get(d, key, None)]

\* d[key] of a CaselessDict
Lookup(d, key) ==
    IF lower(key) \in DOMAIN d
    THEN [err |-> "", val |-> d[lower(key)]]
    ELSE [err |-> "KeyError", val |-> None]

\* DataInfo.toDataInfo on the caseless copy d of info
toDataInfoOf(name, d) ==
    LET dtype == Lookup(d, K_type)
    IN
    IF dtype.err # "" THEN Raise(dtype.err)
    ELSE
    LET t == to_dtype_dformat(dtype.val)
        default_value == Get(d, K_defaultvalue, None)
        description == Get(d, K_description, StrV(<<>>))
        a == to_daccess(Get(d, K_rw, IntV(DataAccess.ReadWrite)))
        fget == Get(d, K_fget, None)
        fset == Get(d, K_fset, None)
        dv == DefaultValueOf(default_value, t.dtype)
    IN IF t.err # "" THEN Raise(t.err)
       ELSE IF a.err # "" THEN Raise(a.err)
       ELSE IF dv.err # "" THEN Raise(dv.err)
       ELSE [err |-> "",
             val |-> DataInfo(name, t.dtype, t.dformat, a.access, description,
                              dv.val, fget, fset)]

\* DataInfo.toDataInfo(name, info); info has no two keys equal ignoring
\* case where this is used, so that its caseless copy is one
toDataInfo(name, info) == toDataInfoOf(name, CHOOSE d \in CaselessDict(info) : TRUE)

\* DataInfo.toDict
DataInfo_toDict(self) ==
    [name |-> self.name,
     type |-> whatis(DataType, self.dtype),
     format |-> whatis(DataFormat, self.dformat),
     access |-> whatis(DataAccess, self.access),
     description |-> self.description,
     default_value |-> self.default_value]

\* ---------------------------------------------------------- type registry
ElementType ==
    [Pool |-> 0, Ctrl |-> 1, Motor |-> 2, CTExpChannel |-> 3,
     ZeroDExpChannel |-> 4, PseudoMotor |-> 5, MotorGroup |-> 6,
     MeasurementGroup |-> 7, Instrument |-> 8]

ET == ElementType

\* TYPE_ELEMENTS of the sardana package: the tags of the controllable devices
TYPE_ELEMENTS == {ET.Motor, ET.CTExpChannel, ET.ZeroDExpChannel, ET.PseudoMotor}

TypeRow(name, family, klass, auto_full_name, ctrl_klass) ==
    [name |-> name, family |-> family, klass |-> klass,
     auto_full_name |-> auto_full_name, ctrl_klass |-> ctrl_klass]

TYPE_MAP ==
    (ET.Ctrl :> TypeRow("Controller", "Controller", "CTRL_TYPE_MAP",
                        "controller/{klass}/{name}", "Controller"))
    @@ (ET.Instrument :> TypeRow("Instrument", "Instrument", "PoolInstrument",
                                 "{full_name}", "None"))
    @@ (ET.Motor :> TypeRow("Motor", "Motor", "PoolMotor",
                            "motor/{ctrl_name}/{axis}", "MotorController"))
    @@ (ET.CTExpChannel :> TypeRow("CTExpChannel", "ExpChannel", "PoolCounterTimer",
                                   "expchan/{ctrl_name}/{axis}",
                                   "CounterTimerController"))
    @@ (ET.PseudoMotor :> TypeRow("PseudoMotor", "Motor", "PoolPseudoMotor",
                                  "pm/{ctrl_name}/{axis}", "PseudoMotorController"))
    @@ (ET.MotorGroup :> TypeRow("MotorGroup", "MotorGroup", "PoolMotorGroup",
                                 "mg/{pool_name}/{name}", "None"))
    @@ (ET.MeasurementGroup :> TypeRow("MeasurementGroup", "MeasurementGroup",
                                       "PoolMeasurementGroup",
                                       "mntgrp/{pool_name}/{name}", "None"))

\* TYPE_MAP_OBJ: one TypeData for each row of TYPE_MAP
TYPE_MAP_OBJ ==
    [t \in DOMAIN TYPE_MAP |->
       [type |-> t, name |-> TYPE_MAP[t].name, family |-> TYPE_MAP[t].family,
        klass |-> TYPE_MAP[t].klass,
        auto_full_name |-> TYPE_MAP[t].auto_full_name,
        ctrl_klass |-> TYPE_MAP[t].ctrl_klass]]

\* dict.items() of a dict with small integer keys: in the order of the keys
RECURSIVE Items(_)
Items(d) ==
    IF DOMAIN d = {} THEN <<>>
    ELSE LET k == CHOOSE x \in DOMAIN d : \A y \in DOMAIN d : x <= y
         IN <<k>> \o Items([x \in DOMAIN d \ {k} |-> d[x]])

\* the controller base classes of controller.py and the bases of each
Ancestors ==
    [Controller |-> {"Controller"},
     MotorController |-> {"MotorController", "Controller"},
     CounterTimerController |-> {"CounterTimerController", "Controller"},
     PseudoMotorController |-> {"PseudoMotorController", "Controller"}]

Mro(klass) == UNION {Ancestors[b] : b \in klass.bases}

\* issubclass(klass, base); a base that is no class is a TypeError
issubclass(klass, base) ==
    IF base = "None" THEN [err |-> "TypeError", val |-> FALSE]
    ELSE [err |-> "", val |-> base \in Mro(klass)]

\* ------------------------------------------------------- ControllerClass
\* the loop of __build_types over the rest of the registry's items
RECURSIVE build_types_from(_, _, _)
build_types_from(klass, items, types) ==
    IF items = <<>> THEN [err |-> "", val |-> types]
    ELSE LET type == items[1]
             type_data == TYPE_MAP_OBJ[type]
         IN IF type \notin TYPE_ELEMENTS
            THEN build_types_from(klass, Tail(items), types)
            ELSE LET sub == issubclass(klass, type_data.ctrl_klass)
                 IN IF sub.err # "" THEN [err |-> sub.err, val |-> <<>>]
                    ELSE build_types_from(klass, Tail(items),
                           IF sub.val THEN Append(types, type) ELSE types)

\* the loop of __build_types without the test of TYPE_ELEMENTS
RECURSIVE build_types_all(_, _, _)
build_types_all(klass, items, types) ==
    IF items = <<>> THEN [err |-> "", val |-> types]
    ELSE LET sub == issubclass(klass, TYPE_MAP_OBJ[items[1]].ctrl_klass)
         IN build_types_all(klass, Tail(items),
              IF sub.val THEN Append(types, items[1]) ELSE types)

build_types_NoElementTest(klass) == build_types_all(klass, Items(TYPE_MAP_OBJ), <<>>)

\* ControllerClass.__build_types
build_types(klass) == build_types_from(klass, Items(TYPE_MAP_OBJ), <<>>)

\* CaselessDict.__setitem__
SetItem(d, key, value) ==
    [x \in DOMAIN d \cup {lower(key)} |-> IF x = lower(key) THEN value ELSE d[x]]

\* one loop "for k, v in mapping.items(): coll[k] = DataInfo.toDataInfo(k, v)"
RECURSIVE AddItems(_, _)
AddItems(coll, items) ==
    IF coll.err # "" \/ items = <<>> THEN coll
    ELSE LET r == toDataInfo(items[1][1], items[1][2])
         IN IF r.err # "" THEN [err |-> r.err, val |-> coll.val]
            ELSE AddItems([err |-> "", val |-> SetItem(coll.val, items[1][1], r.val)],
                          Tail(items))

\* AddMapping that takes a missing mapping for an empty one
AddMapping_MissingIsEmpty(coll, klass, member) ==
    IF coll.err # "" \/ member \notin klass.attrs THEN coll
    ELSE AddItems(coll, klass[member])

\* the loop over the mapping klass.member, a missing member being an
\* AttributeError
AddMapping(coll, klass, member) ==
    IF coll.err # "" THEN coll
    ELSE IF member \notin klass.attrs
    THEN [err |-> "AttributeError", val |-> coll.val]
    ELSE AddItems(coll, klass[member])

EmptyColl == [err |-> "", val |-> <<>>]

\* lines 214-218 with the two loops in the other order
Properties_LegacyLast(klass) ==
    AddMapping(AddMapping(EmptyColl, klass, "ctrl_properties"), klass, "class_prop")

\* lines 214-218: the property descriptors
Properties(klass) ==
    AddMapping(AddMapping(EmptyColl, klass, "class_prop"), klass, "ctrl_properties")

\* lines 220-222: the controller attribute descriptors
ControllerAttributes(klass) == AddMapping(EmptyColl, klass, "ctrl_attributes")

\* lines 224-228: the axis attribute descriptors
AxisAttributes(klass) ==
    AddMapping(AddMapping(EmptyColl, klass, "ctrl_extra_attributes"),
               klass, "axis_attributes")

\* lines 238-240 with "and" for "or"
ApiVersion_Either(klass) ==
    IF ~klass.init.varargs /\ ~klass.init.keywords THEN 0 ELSE 1

\* lines 238-240: the API level of the constructor's signature
ApiVersion(klass) ==
    IF ~klass.init.varargs \/ ~klass.init.keywords THEN 0 ELSE 1

\* lines 232-236 without the test of the pseudo motor tag
RolesOf_Always(klass, types) ==
    IF {"motor_roles", "pseudo_motor_roles"} \subseteq klass.attrs
    THEN [err |-> "",
          val |-> [motor_roles |-> klass.motor_roles,
                   pseudo_motor_roles |-> klass.pseudo_motor_roles]]
    ELSE [err |-> "AttributeError", val |-> <<>>]

\* lines 232-236: the role lists, read when the pseudo motor tag is satisfied
RolesOf(klass, types) ==
    IF \E i \in 1..Len(types) : types[i] = ElementType.PseudoMotor
    THEN IF {"motor_roles", "pseudo_motor_roles"} \subseteq klass.attrs
         THEN [err |-> "",
               val |-> [motor_roles |-> klass.motor_roles,
                        pseudo_motor_roles |-> klass.pseudo_motor_roles]]
         ELSE [err |-> "AttributeError", val |-> <<>>]
    ELSE [err |-> "", val |-> <<>>]

NoClass ==
    [name |-> <<>>, bases |-> {}, attrs |-> {}, doc |-> None, gender |-> None,
     model |-> None, organization |-> None, ctrl_features |-> <<>>, class_prop |-> <<>>, ctrl_properties |-> <<>>,
     ctrl_attributes |-> <<>>, ctrl_extra_attributes |-> <<>>,
     axis_attributes |-> <<>>, motor_roles |-> <<>>, pseudo_motor_roles |-> <<>>,
     init |-> [python |-> FALSE, varargs |-> FALSE, keywords |-> FALSE]]

NoRecord ==
    [klass |-> NoClass, name |-> <<>>, lib |-> <<>>, types |-> <<>>, errors |-> <<>>,
     dict_extra |-> <<>>, roles |-> <<>>, api_version |-> -1,
     ctrl_features |-> <<>>, ctrl_properties |-> <<>>, ctrl_attributes |-> <<>>,
     axis_attributes |-> <<>>]

Failed(kind) == [err |-> kind, rec |-> NoRecord]

\* ControllerClass.__init__(lib, klass, name): the record, or the error raised
ControllerClass(lib, klass, name) ==
    LET props == Properties(klass)
        ctrl_attrs == ControllerAttributes(klass)
        axis_attrs == AxisAttributes(klass)
        types == build_types(klass)
        roles == RolesOf(klass, types.val)
    IN IF "ctrl_features" \notin klass.attrs THEN Failed("AttributeError")
       ELSE IF props.err # "" THEN Failed(props.err)
       ELSE IF ctrl_attrs.err # "" THEN Failed(ctrl_attrs.err)
       ELSE IF axis_attrs.err # "" THEN Failed(axis_attrs.err)
       ELSE IF types.err # "" THEN Failed(types.err)
       ELSE IF roles.err # "" THEN Failed(roles.err)
       ELSE IF ~klass.init.python THEN Failed("TypeError")
       ELSE [err |-> "",
             rec |-> [klass |-> klass,
                      name |-> IF Truthy(name) THEN name.s ELSE klass.name,
                      lib |-> lib.name,
                      types |-> types.val,
                      errors |-> <<>>,
                      dict_extra |-> roles.val,
                      roles |-> roles.val,
                      api_version |-> ApiVersion(klass),
                      ctrl_features |-> klass.ctrl_features,
                      ctrl_properties |-> props.val,
                      ctrl_attributes |-> ctrl_attrs.val,
                      axis_attributes |-> axis_attrs.val]]

NoDoc == <<"<", "U", "n", "d", "o", "c", ">">>

\* the dict "name of the descriptor -> its toDict" of a descriptor collection
DescriptorDicts(coll) ==
    [n \in {coll[k].name : k \in DOMAIN coll} |->
       DataInfo_toDict(CHOOSE x \in {coll[k] : k \in DOMAIN coll} : x.name = n)]

\* setTypes that keeps the extra keys of toDict in step with the types
setTypes_SyncRoles(self, types) ==
    [self EXCEPT !.types = types,
                 !.dict_extra =
                     IF \E i \in 1..Len(types) : types[i] = ElementType.PseudoMotor
                     THEN [motor_roles |-> self.klass.motor_roles,
                           pseudo_motor_roles |-> self.klass.pseudo_motor_roles]
                     ELSE <<>>]

\* ControllerClass.setTypes: the record after the call
setTypes(self, types) == [self EXCEPT !.types = types]

\* ControllerClass.getTypes
getTypes(self) == self.types

\* ControllerClass.getName, getModuleName, getFullName
getName(self) == self.name
getModuleName(self, lib) == lib.name
getFullName(self, lib) == getModuleName(self, lib) \o <<".">> \o getName(self)

\* the mapping toDict returns, its extra keys taken from extra
ToDictOf(self, lib, extra) ==
    LET name == getName(self)
        module_name == getModuleName(self, lib)
        ret == [name |-> name,
                full_name |-> name \o <<".">> \o module_name,
                id |-> 0,
                module |-> module_name,
                filename |-> lib.f_name,
                description |-> IF Truthy(self.klass.doc) THEN self.klass.doc.s
                                ELSE NoDoc,
                gender |-> self.klass.gender,
                model |-> self.klass.model,
                organization |-> self.klass.organization,
                api_version |-> self.api_version,
                types |-> [i \in 1..Len(getTypes(self)) |->
                             whatis(ElementType, getTypes(self)[i])],
                ctrl_properties |-> DescriptorDicts(self.ctrl_properties),
                ctrl_attributes |-> DescriptorDicts(self.ctrl_attributes),
                axis_attributes |-> DescriptorDicts(self.axis_attributes),
                ctrl_features |-> self.ctrl_features,
                type |-> "ControllerClass"]
    IN IF ~({"gender", "model", "organization"} \subseteq self.klass.attrs)
       THEN [err |-> "AttributeError", val |-> <<>>]
       ELSE [err |-> "", val |-> extra @@ ret]

\* toDict with the role lists taken when the types hold the pseudo motor tag
toDict_RolesByTypes(self, lib) ==
    ToDictOf(self, lib,
             IF \E i \in 1..Len(self.types) : self.types[i] = ElementType.PseudoMotor
             THEN [motor_roles |-> self.klass.motor_roles,
                   pseudo_motor_roles |-> self.klass.pseudo_motor_roles]
             ELSE <<>>)

\* ControllerClass.toDict
toDict(self, lib) == ToDictOf(self, lib, self.dict_extra)

\* ControllerClass.serialize(**kwargs)
serialize(self, lib, kwargs) ==
    LET d == toDict(self, lib)
    IN IF d.err # "" THEN d ELSE [err |-> "", val |-> d.val @@ kwargs]

\* ------------------------------------------------------------------ state
VARIABLES
    di_name, di_info, di_res, di_done,   \* a call of DataInfo.toDataInfo
    lib,         \* the module record
    klass,       \* the class handed to ControllerClass
    given_name,  \* the name handed to ControllerClass, or None
    pc,          \* "new", then "catalogued" or "failed"
    rec,         \* the ControllerClass record, once catalogued
    err,         \* the error ControllerClass raised, if it failed
    op,          \* the last method called on the record
    arg,         \* the types handed to the last setTypes
    out,         \* what the last method returned
    module,      \* the classes of the module being loaded
    pending      \* those of them not yet handed to ControllerClass

di_vars == <<di_name, di_info, di_res, di_done>>
cat_vars == <<klass, given_name, pc, rec, err, op, arg, out>>
lib_vars == <<lib, module, pending>>
vars == <<di_vars, cat_vars, lib_vars>>

Names == {<<"a">>, <<"A">>, <<"b">>}

Texts == UNION {[1..n -> Chars] : n \in 0..MaxLen}

\* the raw values a declaration gives as a default value
Defaults == {StrV(t) : t \in Texts} \cup {IntV(5), FloatV(5)}

TypeDecls == {StrV(T_int), StrV(T_float), StrV(T_str), StrV(T_bogus)}
AccessDecls == {StrV(A_read), StrV(A_read_write), StrV(T_bogus)}

\* the entries a declaration may give under the keys ks, each with a value of vs
Entries(ks, vs) ==
    {<<>>} \cup {k :> v : k \in ks, v \in vs}

TypeEntries ==
    Entries({K_type, K_Type}, TypeDecls)
    \cup {(K_type :> v) @@ (K_Type :> w) : v \in TypeDecls, w \in TypeDecls}

Infos ==
    {t @@ a @@ d @@ g :
       t \in TypeEntries,
       a \in Entries({K_rw}, AccessDecls),
       d \in Entries({K_defaultvalue}, Defaults),
       g \in Entries({K_fget}, {StrV(<<"g">>)})}

\* the module record of a module with no class catalogued yet
NewLib ==
    [name |-> <<"m", "o", "d">>, f_name |-> <<"m", "o", "d", ".", "p", "y">>,
     controllers |-> <<>>, errors |-> <<>>]

NoCall == [err |-> "", val |-> <<>>]

\* arg before the first setTypes
NoArg == <<-1>>

DIIdle == di_name = <<>> /\ di_info = <<>> /\ di_res = Raise("") /\ di_done = TRUE

CatIdle ==
    /\ klass = NoClass /\ given_name = None /\ pc = "idle" /\ rec = NoRecord
    /\ err = "" /\ op = "" /\ arg = NoArg /\ out = NoCall

LibIdle == lib = NewLib /\ module = <<>> /\ pending = <<>>

DIInit ==
    /\ di_name \in Names
    /\ di_info \in Infos
    /\ di_res = Raise("")
    /\ di_done = FALSE
    /\ CatIdle
    /\ LibIdle

\* DataInfo.toDataInfo(name, info)
ToDataInfo ==
    /\ ~di_done
    /\ \E d \in CaselessDict(di_info) : di_res' = toDataInfoOf(di_name, d)
    /\ di_done' = TRUE
    /\ UNCHANGED <<di_name, di_info, cat_vars, lib_vars>>

DINext == ToDataInfo

SpecDI == DIInit /\ [][DINext]_vars

\* ------------------------------------------------------ the classes given
RequiredMembers ==
    {"ctrl_features", "class_prop", "ctrl_properties", "ctrl_attributes",
     "ctrl_extra_attributes", "axis_attributes"}
RoleMembers == {"motor_roles", "pseudo_motor_roles"}
InfoMembers == {"gender", "model", "organization"}
AllMembers == RequiredMembers \cup RoleMembers \cup InfoMembers

\* the members a class has from the controller base classes it derives from
Inherited(bases) ==
    LET mro == UNION {Ancestors[b] : b \in bases}
    IN (IF "Controller" \in mro THEN RequiredMembers \cup InfoMembers ELSE {})
       \cup (IF "PseudoMotorController" \in mro THEN RoleMembers ELSE {})

\* a class deriving from bases that declares the members own itself
Derive(c, bases, own) == [c EXCEPT !.bases = bases, !.attrs = own \cup Inherited(bases)]

Plain ==
    [name |-> <<"K">>, bases |-> {"MotorController"},
     attrs |-> Inherited({"MotorController"}),
     doc |-> None, gender |-> StrV(<<"g">>), model |-> None,
     organization |-> None, ctrl_features |-> <<"f">>,
     class_prop |-> <<>>, ctrl_properties |-> <<>>, ctrl_attributes |-> <<>>,
     ctrl_extra_attributes |-> <<>>, axis_attributes |-> <<>>,
     motor_roles |-> <<>>, pseudo_motor_roles |-> <<>>,
     init |-> [python |-> TRUE, varargs |-> TRUE, keywords |-> TRUE]]

I_int5 == (K_type :> StrV(T_int)) @@ (K_defaultvalue :> StrV(<<"5">>))
I_str == (K_Type :> StrV(T_str)) @@ (K_rw :> StrV(A_read))
I_notype == (K_defaultvalue :> IntV(5))
I_badliteral == (K_type :> StrV(T_int)) @@ (K_defaultvalue :> StrV(<<"x">>))

\* the items() of the mappings with at most n entries
ItemSeqs(keys, infos, n) ==
    {items \in UNION {[1..m -> keys \X infos] : m \in 0..n} :
       \A i, j \in 1..Len(items) : i # j => items[i][1] # items[j][1]}

Schemas == ItemSeqs(Names, {I_int5, I_str}, MaxItems)
TwoCases == {items \in ItemSeqs({<<"a">>, <<"A">>}, {I_int5, I_str}, 2) : Len(items) = 2}
BadSchemas == {<<<<n, i>>>> : n \in {<<"a">>}, i \in {I_notype, I_badliteral}}

BaseSets ==
    (SUBSET {"MotorController", "CounterTimerController", "PseudoMotorController"})
    \cup {{"Controller"}}

Signatures ==
    {[python |-> TRUE, varargs |-> v, keywords |-> k] : v \in BOOLEAN, k \in BOOLEAN}
    \cup {[python |-> FALSE, varargs |-> FALSE, keywords |-> FALSE]}

RoleLists(names) == UNION {[1..m -> names] : m \in 0..MaxRoles}

MappingMembers ==
    {"class_prop", "ctrl_properties", "ctrl_attributes", "ctrl_extra_attributes",
     "axis_attributes"}

\* the classes deriving from the controller base classes, with a constructor
\* of each signature
ControllerClasses ==
    {[Derive(Plain, b, {}) EXCEPT !.init = s] : b \in BaseSets, s \in Signatures}

Classes ==
    ControllerClasses
    \cup {[Derive(Plain, b, AllMembers) EXCEPT !.motor_roles = m,
                                                !.pseudo_motor_roles = q] :
            b \in {{}, {"MotorController"}, {"PseudoMotorController"},
                   {"MotorController", "PseudoMotorController"}},
            m \in RoleLists({<<"m", "1">>, <<"m", "2">>}),
            q \in RoleLists({<<"p", "1">>})}
    \cup {Derive(Plain, {}, AllMembers \ {a}) : a \in AllMembers}
    \cup {[Plain EXCEPT !.class_prop = l, !.ctrl_properties = c] :
            l \in Schemas, c \in Schemas}
    \cup {[Plain EXCEPT !.ctrl_extra_attributes = l, !.axis_attributes = c] :
            l \in Schemas, c \in Schemas}
    \cup {[Plain EXCEPT ![a] = items] :
            a \in MappingMembers, items \in TwoCases \cup BadSchemas}

\* the calls ControllerClass(lib, klass) and ControllerClass(lib, klass, name)
Calls ==
    {<<c, None>> : c \in Classes}
    \cup {<<c, StrV(<<"N">>)>> : c \in ControllerClasses}

TypeLists ==
    {<<>>, <<ET.PseudoMotor>>, <<ET.Motor>>, <<ET.Motor, ET.PseudoMotor>>,
     <<ET.MotorGroup>>}

Kwargs == {<<>>, [name |-> <<"z">>], [extra |-> <<"z">>]}

\* ------------------------------------------- cataloguing one class, and on
Init ==
    /\ \E call \in Calls : klass = call[1] /\ given_name = call[2]
    /\ pc = "new"
    /\ rec = NoRecord
    /\ err = ""
    /\ op = ""
    /\ arg = NoArg
    /\ out = NoCall
    /\ DIIdle
    /\ LibIdle

\* ControllerClass(lib, klass, name)
Catalog ==
    /\ pc = "new"
    /\ LET r == ControllerClass(lib, klass, given_name)
       IN /\ pc' = IF r.err = "" THEN "catalogued" ELSE "failed"
          /\ rec' = r.rec
          /\ err' = r.err
    /\ op' = "__init__"
    /\ UNCHANGED <<klass, given_name, arg, out, di_vars, lib_vars>>

\* rec.setTypes(types)
SetTypes ==
    /\ pc = "catalogued"
    /\ \E types \in TypeLists :
          /\ rec' = setTypes(rec, types)
          /\ arg' = types
    /\ op' = "setTypes"
    /\ out' = NoCall
    /\ UNCHANGED <<klass, given_name, pc, err, di_vars, lib_vars>>

\* rec.getTypes()
GetTypes ==
    /\ pc = "catalogued"
    /\ op' = "getTypes"
    /\ out' = [err |-> "", val |-> getTypes(rec)]
    /\ UNCHANGED <<klass, given_name, pc, rec, err, arg, di_vars, lib_vars>>

\* rec.toDict()
ToDict ==
    /\ pc = "catalogued"
    /\ op' = "toDict"
    /\ out' = toDict(rec, lib)
    /\ UNCHANGED <<klass, given_name, pc, rec, err, arg, di_vars, lib_vars>>

\* rec.serialize(**kwargs)
Serialize ==
    /\ pc = "catalogued"
    /\ op' = "serialize"
    /\ \E kwargs \in Kwargs : out' = serialize(rec, lib, kwargs)
    /\ UNCHANGED <<klass, given_name, pc, rec, err, arg, di_vars, lib_vars>>

\* rec.getName(), rec.getFullName()
GetName ==
    /\ pc = "catalogued"
    /\ op' = "getName"
    /\ out' = [err |-> "", val |-> getName(rec)]
    /\ UNCHANGED <<klass, given_name, pc, rec, err, arg, di_vars, lib_vars>>

GetFullName ==
    /\ pc = "catalogued"
    /\ op' = "getFullName"
    /\ out' = [err |-> "", val |-> getFullName(rec, lib)]
    /\ UNCHANGED <<klass, given_name, pc, rec, err, arg, di_vars, lib_vars>>

Next ==
    \/ Catalog
    \/ SetTypes
    \/ GetTypes
    \/ ToDict
    \/ Serialize
    \/ GetName
    \/ GetFullName

Spec == Init /\ [][Next]_vars

\* ------------------------------------------------------ loading a module
\* SardanaMetaLib.add_meta_class, as ControllerLib.add_controller
add_controller(self, meta) ==
    [self EXCEPT !.controllers =
        [n \in DOMAIN self.controllers \cup {meta.name} |->
           IF n = meta.name THEN meta ELSE self.controllers[n]]]

\* the error of a class recorded against the module record
add_error(self, name, kind) ==
    [self EXCEPT !.errors = Append(@, [name |-> name, err |-> kind])]

ClassNames == <<<<"P">>, <<"Q">>, <<"R">>, <<"S">>>>

LibClasses ==
    {Derive(Plain, {}, AllMembers \ {a}) : a \in AllMembers}
    \cup {Plain,
          [Derive(Plain, {"PseudoMotorController"}, {})
             EXCEPT !.motor_roles = <<<<"m", "1">>>>,
                    !.class_prop = <<<<<<"A">>, I_int5>>>>,
                    !.ctrl_properties = <<<<<<"a">>, I_str>>>>],
          [Plain EXCEPT !.ctrl_attributes = <<<<<<"a">>, I_notype>>>>]}

\* the modules: their classes, each under a name of its own
Modules ==
    UNION {{[i \in 1..n |-> [m[i] EXCEPT !.name = ClassNames[i]]] :
              m \in [1..n -> LibClasses]} : n \in 0..MaxClasses}

LibInit ==
    /\ module \in Modules
    /\ pending = module
    /\ lib = NewLib
    /\ DIIdle
    /\ CatIdle

\* the loader's step for the next class of the module: the class is
\* catalogued and added to the module record, or its error is recorded
LoadClass ==
    /\ pending # <<>>
    /\ LET r == ControllerClass(lib, Head(pending), None)
       IN \/ /\ r.err = ""
             /\ lib' = add_controller(lib, r.rec)
          \/ /\ r.err # ""
             /\ lib' = add_error(lib, Head(pending).name, r.err)
    /\ pending' = Tail(pending)
    /\ UNCHANGED <<module, di_vars, cat_vars>>

LibNext == LoadClass

SpecLib == LibInit /\ [][LibNext]_vars

\* ------------------------------------------------- claims on toDataInfo
HasKey(info, key) == \E x \in DOMAIN info : lower(x) = lower(key)
Declared(info, key) == {info[x] : x \in {y \in DOMAIN info : lower(y) = lower(key)}}
Returned == di_done /\ di_res.err = ""

\* a text that is a decimal literal
IsDecimal(t) == t # <<>> /\ \A i \in 1..Len(t) : t[i] \in Digits

\* a value of the Python type that holds the data type
WellTyped(v, dtype) ==
    CASE dtype = DataType.Integer -> v.k = "int"
      [] dtype = DataType.Double -> v.k \in {"float", "int"}
      [] dtype = DataType.String -> v.k = "str"
      [] OTHER -> FALSE

\* C2 as stated: toDataInfo of a mapping with no 'type' key, in any letter
\* case, fails with InvalidConfiguration and returns no descriptor.
C2_AsStated ==
    (di_done /\ ~HasKey(di_info, K_type))
        => (di_res.err = "InvalidConfiguration" /\ di_res.val = NoDataInfo)

\* C2 amended: toDataInfo of a mapping with no 'type' key, in any letter
\* case, fails with the KeyError of the lookup info['type'] and returns no
\* descriptor.
C2_MissingTypeKeyError ==
    (di_done /\ ~HasKey(di_info, K_type))
        => (di_res.err = "KeyError" /\ di_res.val = NoDataInfo)

C2_Witness ==
    /\ di_done
    /\ ~HasKey(di_info, K_type)
    /\ HasKey(di_info, K_defaultvalue)
    /\ di_res.err = "KeyError"

\* C3: the default value of a returned descriptor is None when
\* 'defaultvalue' is absent, the declared default unevaluated when the type
\* is the string type ("5" stays "5"), the value the text evaluates to when
\* the type is not the string type and the declared default is a text ("5"
\* becomes 5), and the declared default unchanged when it is not a text.
C3_DefaultValueRule ==
    Returned =>
        LET dv == di_res.val.default_value
            dtype == di_res.val.dtype
        IN /\ ~HasKey(di_info, K_defaultvalue) => dv = None
           /\ \A v \in Declared(di_info, K_defaultvalue) :
                 /\ dtype = DataType.String => dv = v
                 /\ (dtype # DataType.String /\ v.k = "str") => dv = eval(v.s).val
                 /\ (dtype # DataType.String /\ v.k = "str" /\ v.s = <<"5">>) => dv = IntV(5)
                 /\ (dtype # DataType.String /\ v.k = "str" /\ v.s = <<"1", "5">>) => dv = IntV(15)
                 /\ (dtype = DataType.String /\ v.k = "str" /\ v.s = <<"5">>) => dv = StrV(<<"5">>)
                 /\ v.k # "str" => dv = v

C3_Witness ==
    /\ Returned
    /\ di_res.val.dtype = DataType.Integer
    /\ Declared(di_info, K_defaultvalue) = {StrV(<<"5">>)}
    /\ di_res.val.default_value = IntV(5)

Handled == SubSeq(module, 1, Len(module) - Len(pending))

Catalogued(c) ==
    c.name \in DOMAIN lib.controllers /\ lib.controllers[c.name].klass = c

ErrorsOf(c) == {lib.errors[i].err : i \in {j \in 1..Len(lib.errors) : lib.errors[j].name = c.name}}

\* a class that declares every member, with schemas that resolve
WellDeclared(c) ==
    /\ AllMembers \ RoleMembers \subseteq c.attrs
    /\ \A a \in MappingMembers : \A i \in 1..Len(c[a]) : c[a][i][2] \in {I_int5, I_str}
    /\ c.init.python

\* C1: a class of a module that lacks a required declared member is not
\* catalogued, its error is recorded against the module record and stops
\* nothing: every class of the module handled so far is either catalogued or
\* has its error recorded, and every well declared class is catalogued.
C1_MissingMemberRecorded ==
    /\ Len(lib.errors) + Cardinality(DOMAIN lib.controllers) = Len(Handled)
    /\ \A i \in 1..Len(Handled) :
         LET c == module[i]
         IN /\ ~(RequiredMembers \subseteq c.attrs)
                 => (~Catalogued(c) /\ ErrorsOf(c) = {"AttributeError"})
            /\ WellDeclared(c) => (Catalogued(c) /\ ErrorsOf(c) = {})

C1_Witness ==
    /\ pending = <<>>
    /\ Len(module) = 2
    /\ "class_prop" \notin module[1].attrs
    /\ WellDeclared(module[2])
    /\ Catalogued(module[2])
    /\ ErrorsOf(module[1]) = {"AttributeError"}

\* ---------------------------------------------- claims on ControllerClass
IsCatalogued == pc = "catalogued"
Fresh == IsCatalogued /\ op = "__init__"
ToDictReturned == IsCatalogued /\ op = "toDict" /\ out.err = ""
Elements(seq) == {seq[i] : i \in 1..Len(seq)}
DerivesFrom(c, base) == base \in Mro(c)
RoleKeys == {"motor_roles", "pseudo_motor_roles"}

\* C4: the types of a freshly catalogued class are exactly the tags of
\* TYPE_ELEMENTS that the registry holds and whose ctrl_klass the class
\* derives from, each once: the Motor tag for a class deriving from
\* MotorController, none for a class deriving from no registered base.
C4_TypesOfFreshRecord ==
    Fresh =>
        /\ Elements(rec.types) =
             {t \in TYPE_ELEMENTS \cap DOMAIN TYPE_MAP :
                DerivesFrom(klass, TYPE_MAP[t].ctrl_klass)}
        /\ Len(rec.types) = Cardinality(Elements(rec.types))
        /\ DerivesFrom(klass, "MotorController") => ET.Motor \in Elements(rec.types)
        /\ (\A t \in DOMAIN TYPE_MAP : ~DerivesFrom(klass, TYPE_MAP[t].ctrl_klass))
             => rec.types = <<>>
        /\ Mro(klass) = {"Controller"} => rec.types = <<>>

C4_Witness ==
    /\ Fresh
    /\ Elements(rec.types) = {ET.Motor, ET.CTExpChannel, ET.PseudoMotor}

\* C5 as stated: toDict of a catalogued class that satisfies the pseudo motor
\* tag has non-empty 'motor_roles' and 'pseudo_motor_roles' holding the
\* declared role lists; toDict of any other catalogued class has neither key.
C5_AsStated ==
    ToDictReturned =>
        IF DerivesFrom(klass, "PseudoMotorController")
        THEN /\ RoleKeys \subseteq DOMAIN out.val
             /\ out.val.motor_roles = klass.motor_roles
             /\ out.val.pseudo_motor_roles = klass.pseudo_motor_roles
             /\ out.val.motor_roles # <<>>
             /\ out.val.pseudo_motor_roles # <<>>
        ELSE RoleKeys \cap DOMAIN out.val = {}

\* C5 amended: toDict of a catalogued class that satisfies the pseudo motor
\* tag has the keys 'motor_roles' and 'pseudo_motor_roles' holding the
\* declared role lists in the declared order, empty when the class declares
\* them empty; toDict of any other catalogued class has neither key.
C5_RoleKeys ==
    ToDictReturned =>
        IF DerivesFrom(klass, "PseudoMotorController")
        THEN /\ RoleKeys \subseteq DOMAIN out.val
             /\ out.val.motor_roles = klass.motor_roles
             /\ out.val.pseudo_motor_roles = klass.pseudo_motor_roles
        ELSE RoleKeys \cap DOMAIN out.val = {}

C5_Witness ==
    /\ ToDictReturned
    /\ DerivesFrom(klass, "PseudoMotorController")
    /\ RoleKeys \subseteq DOMAIN out.val
    /\ out.val.motor_roles = <<<<"m", "2">>, <<"m", "1">>>>
    /\ out.val.pseudo_motor_roles = <<>>

\* the entries of the items of a mapping whose key is k ignoring case
SameKey(items, k) == {i \in 1..Len(items) : lower(items[i][1]) = lower(k)}

DistinctIgnoringCase(coll) ==
    \A x, y \in DOMAIN coll : x # y => lower(coll[x].name) # lower(coll[y].name)

\* of keys equal ignoring case in legacy and current, the collection holds
\* one descriptor, with the name and the type of an entry of current
CurrentWins(coll, legacy, current) ==
    \A i \in 1..Len(legacy) :
       SameKey(current, legacy[i][1]) # {} =>
          /\ Cardinality({x \in DOMAIN coll :
                            lower(coll[x].name) = lower(legacy[i][1])}) = 1
          /\ \E j \in SameKey(current, legacy[i][1]) :
                LET d == coll[lower(legacy[i][1])]
                IN /\ d.name = current[j][1]
                   /\ \E v \in Declared(current[j][2], K_type) : d.dtype = DTYPE_MAP[v.s]
                   /\ d.default_value # None <=> HasKey(current[j][2], K_defaultvalue)

\* C6: in the properties, the controller attributes and the axis attributes
\* of a catalogued class no two descriptors have names equal ignoring case;
\* of a key that the legacy and the current mapping both declare, ignoring
\* case, the collection holds one descriptor, built from the current entry.
C6_CaselessCollections ==
    IsCatalogued =>
        /\ DistinctIgnoringCase(rec.ctrl_properties)
        /\ DistinctIgnoringCase(rec.ctrl_attributes)
        /\ DistinctIgnoringCase(rec.axis_attributes)
        /\ CurrentWins(rec.ctrl_properties, klass.class_prop, klass.ctrl_properties)
        /\ CurrentWins(rec.axis_attributes, klass.ctrl_extra_attributes,
                       klass.axis_attributes)

C6_Witness ==
    /\ IsCatalogued
    /\ klass.class_prop = <<<<<<"A">>, I_int5>>>>
    /\ klass.ctrl_properties = <<<<<<"a">>, I_str>>>>
    /\ DOMAIN rec.ctrl_properties = {<<"a">>}
    /\ rec.ctrl_properties[<<"a">>].name = <<"a">>
    /\ rec.ctrl_properties[<<"a">>].dtype = DataType.String

FrameFields ==
    {"klass", "name", "lib", "errors", "dict_extra", "roles", "api_version",
     "ctrl_features", "ctrl_properties", "ctrl_attributes", "axis_attributes"}

\* C7: once the record is created no method changes its name, module
\* record, features, descriptor collections, api_version or role lists; its
\* types change only in setTypes, to the list handed over, which getTypes
\* then returns.
C7_OnlyTypesChange ==
    [][IsCatalogued =>
         /\ \A f \in FrameFields : rec'[f] = rec[f]
         /\ rec'.types # rec.types => op' = "setTypes"
         /\ arg' # NoArg => rec'.types = arg'
         /\ op' = "getTypes" => out'.val = rec'.types]_vars

C7_Witness ==
    /\ IsCatalogued
    /\ op = "getTypes"
    /\ DerivesFrom(klass, "PseudoMotorController")
    /\ arg = <<ET.Motor>>
    /\ out.val = <<ET.Motor>>

\* C9: the api_version of a catalogued class is 1 when its constructor
\* declares both *args and **kwargs and 0 otherwise, and toDict gives it
\* under 'api_version'.
C9_ApiVersion ==
    IsCatalogued =>
        /\ rec.api_version = IF klass.init.varargs /\ klass.init.keywords THEN 1 ELSE 0
        /\ ToDictReturned => out.val.api_version = rec.api_version

C9_Witness ==
    /\ ToDictReturned
    /\ klass.init.varargs
    /\ ~klass.init.keywords
    /\ out.val.api_version = 0

\* C10 as stated: after any setTypes calls toDict has the keys 'motor_roles'
\* and 'pseudo_motor_roles' exactly when the pseudo motor tag is in the
\* types list it renders under 'types'.
C10_AsStated ==
    ToDictReturned =>
        /\ (RoleKeys \subseteq DOMAIN out.val) <=> ("PseudoMotor" \in Elements(out.val.types))
        /\ (RoleKeys \cap DOMAIN out.val # {}) <=> ("PseudoMotor" \in Elements(out.val.types))

\* C10 amended: after any setTypes calls toDict has the keys 'motor_roles'
\* and 'pseudo_motor_roles' exactly when the pseudo motor tag was in the
\* types list computed when the class was catalogued (the class derives from
\* PseudoMotorController); setTypes changes the list under 'types' and not
\* the presence of the two keys.
C10_RoleKeysFollowCataloguing ==
    ToDictReturned =>
        /\ \A key \in RoleKeys :
             key \in DOMAIN out.val <=> DerivesFrom(klass, "PseudoMotorController")
        /\ out.val.types = [i \in 1..Len(rec.types) |-> whatis(ElementType, rec.types[i])]

C10_Witness ==
    /\ ToDictReturned
    /\ arg = <<>>
    /\ out.val.types = <<>>
    /\ RoleKeys \subseteq DOMAIN out.val

====
